---- MODULE Spec2Model ----
(***************************************************************************)
(* A model of src/src/parser.rs, the IMAP response decoder of tokio-imap.  *)
(*                                                                         *)
(* A byte is an integer 0..255 and a slice &[u8] (or &str) is a sequence   *)
(* of bytes.  Every grammar rule `named!(rule<T>, ...)` is an operator     *)
(* rule(i) from the input slice to an IResult:                             *)
(*    Done(rest, out)   IResult::Done(rest, out)                           *)
(*    Incomplete        IResult::Incomplete(_)  (the Needed hint is not    *)
(*                      modelled: no rule of the parser reads it)          *)
(*    Error             IResult::Error(_)                                  *)
(*    Panic             the call does not return: an `unwrap()` on Err or  *)
(*                      None, or a &str slice off a char boundary, aborts  *)
(*                      the thread.                                        *)
(* A u32 / u64 is kept as its decimal numeral without leading zeros (a     *)
(* sequence of digits 0..9), since the values of interest (2^32, 2^64)     *)
(* are outside the integers TLC computes with.                             *)
(*                                                                         *)
(* do_parse!(a: ruleA >> b: ruleB >> (value)) is written                   *)
(*    Then(ruleA(i), LAMBDA a : Then(ruleB(a.rest), LAMBDA b : Done(..)))  *)
(* where Then binds the result of a rule once and stops at the first one   *)
(* that is not Done.                                                       *)
(***************************************************************************)
EXTENDS Integers, Sequences, FiniteSets, TLC

VARIABLES sent, pos, buf, msg, res, out

vars == <<sent, pos, buf, msg, res, out>>

----------------------------------------------------------------------------
(* IResult and slices *)

Done(rest, o) == [kind |-> "Done", rest |-> rest, out |-> o]

Incomplete == [kind |-> "Incomplete"]

Error == [kind |-> "Error"]

Panic == [kind |-> "Panic"]

Take(i, n) == SubSeq(i, 1, n)

Drop(i, n) == SubSeq(i, n + 1, Len(i))

None == <<>>

Some(x) == <<x>>

\* K applied to the value of v, which is computed once
Let(v, K(_)) == CHOOSE y \in { K(x) : x \in {v} } : TRUE

\* the sequencing of do_parse!: K on the result r0 of a rule if it is Done,
\* else r0 (Incomplete and Error end the rule, a panic ends the call)
Then(r0, K(_)) ==
  CHOOSE y \in { IF r.kind # "Done" THEN r ELSE K(r) : r \in {r0} } : TRUE

\* alt!(a | b): b only if a is Error; Incomplete ends the alternation
alt(a, b) == CHOOSE y \in { IF r.kind = "Error" THEN b ELSE r : r \in {a} } : TRUE

\* opt!(rule) applied to the rule's result r0 on input i
opt(i, r0) ==
  CHOOSE y \in { IF r.kind = "Done" THEN Done(r.rest, Some(r.out))
                 ELSE IF r.kind = "Error" THEN Done(i, None)
                 ELSE r : r \in {r0} } : TRUE

----------------------------------------------------------------------------
(* std: str::from_utf8 and str::parse *)

Cont(s, j) == j <= Len(s) /\ s[j] >= 128 /\ s[j] <= 191

In(s, j, lo, hi) == j <= Len(s) /\ s[j] >= lo /\ s[j] <= hi

RECURSIVE utf8_from(_, _)
\* s[k..] is well-formed UTF-8 (what str::from_utf8 accepts)
utf8_from(s, k) ==
  IF k > Len(s) THEN TRUE
  ELSE IF s[k] < 128 THEN utf8_from(s, k + 1)
  ELSE IF s[k] >= 194 /\ s[k] <= 223 THEN Cont(s, k + 1) /\ utf8_from(s, k + 2)
  ELSE IF s[k] = 224 THEN
    In(s, k + 1, 160, 191) /\ Cont(s, k + 2) /\ utf8_from(s, k + 3)
  ELSE IF (s[k] >= 225 /\ s[k] <= 236) \/ s[k] = 238 \/ s[k] = 239 THEN
    Cont(s, k + 1) /\ Cont(s, k + 2) /\ utf8_from(s, k + 3)
  ELSE IF s[k] = 237 THEN
    In(s, k + 1, 128, 159) /\ Cont(s, k + 2) /\ utf8_from(s, k + 3)
  ELSE IF s[k] = 240 THEN
    In(s, k + 1, 144, 191) /\ Cont(s, k + 2) /\ Cont(s, k + 3)
      /\ utf8_from(s, k + 4)
  ELSE IF s[k] >= 241 /\ s[k] <= 243 THEN
    Cont(s, k + 1) /\ Cont(s, k + 2) /\ Cont(s, k + 3) /\ utf8_from(s, k + 4)
  ELSE IF s[k] = 244 THEN
    In(s, k + 1, 128, 143) /\ Cont(s, k + 2) /\ Cont(s, k + 3)
      /\ utf8_from(s, k + 4)
  ELSE FALSE

from_utf8_ok(s) == utf8_from(s, 1)

\* `|s| str::from_utf8(s).unwrap()` applied by map! to a rule's result
map_utf8(r0) ==
  CHOOSE y \in { IF r.kind # "Done" THEN r
                 ELSE IF from_utf8_ok(r.out) THEN r ELSE Panic
                 : r \in {r0} } : TRUE

\* str::is_char_boundary(1), checked by `&text[1..]`, for a non-empty str
char_boundary_1(s) == Len(s) = 1 \/ s[2] < 128 \/ s[2] >= 192

\* the index of the first digit of s that is not '0', else of its last digit
first_significant(s) ==
  IF \E k \in 1..Len(s) : s[k] # 48
  THEN CHOOSE k \in 1..Len(s) : s[k] # 48 /\ \A j \in 1..(k - 1) : s[j] = 48
  ELSE Len(s)

\* the numeral of an ASCII digit run, leading zeros dropped
numeral(s) ==
  Let(first_significant(s), LAMBDA lead :
    SubSeq([k \in 1..Len(s) |-> s[k] - 48], lead, Len(s)))

\* a <= b for numerals
numeral_leq(a, b) ==
  \/ Len(a) < Len(b)
  \/ /\ Len(a) = Len(b)
     /\ \/ a = b
        \/ \E k \in 1..Len(a) :
             a[k] < b[k] /\ \A j \in 1..(k - 1) : a[j] = b[j]

u32_MAX == <<4, 2, 9, 4, 9, 6, 7, 2, 9, 5>>

u64_MAX == <<1, 8, 4, 4, 6, 7, 4, 4, 0, 7, 3, 7, 0, 9, 5, 5, 1, 6, 1, 5>>

\* str::parse::<u32>().unwrap() / ::<u64>() of a digit run
parse_uint(s, max) ==
  Let(numeral(s), LAMBDA n : IF numeral_leq(n, max) THEN Some(n) ELSE None)

RECURSIVE nat_upto(_, _)
\* the integer the first k digits of a numeral denote
nat_upto(d, k) == IF k = 0 THEN 0 ELSE 10 * nat_upto(d, k - 1) + d[k]

\* a numeral of at most 9 digits as an integer
nat_of(d) == nat_upto(d, Len(d))

----------------------------------------------------------------------------
(* nom 3 primitives *)

Byte == 0..255

\* the first index k with i[k] in the byte class S, 0 when there is none
\* (Iterator::position)
position(i, S) ==
  IF \E k \in 1..Len(i) : i[k] \in S
  THEN CHOOSE k \in 1..Len(i) : i[k] \in S /\ \A j \in 1..(k - 1) : i[j] \notin S
  ELSE 0

\* the split of i before index n (n = 0: all of i is taken)
split_before(i, n) ==
  IF n = 0 THEN Done(<<>>, i) ELSE Done(Drop(i, n - 1), Take(i, n - 1))

\* tag!/tag_s!: Compare::compare of the input against the tag bytes
tag_s(i, t) ==
  IF Len(i) < Len(t)
  THEN IF i # Take(t, Len(i)) THEN Error ELSE Incomplete
  ELSE IF Take(i, Len(t)) # t THEN Error ELSE Done(Drop(i, Len(t)), t)

is_alpha(c) == (c >= 65 /\ c <= 90) \/ (c >= 97 /\ c <= 122)

lower(c) == IF c >= 65 /\ c <= 90 THEN c + 32 ELSE c

eq_no_case(a, b) ==
  IF is_alpha(a) /\ is_alpha(b) THEN lower(a) = lower(b)
  ELSE ~is_alpha(a) /\ ~is_alpha(b) /\ a = b

\* tag_no_case!: Compare::compare_no_case
tag_no_case(i, t) ==
  IF \E k \in 1..Len(t) : k <= Len(i) /\ ~eq_no_case(i[k], t[k]) THEN Error
  ELSE IF Len(i) < Len(t) THEN Incomplete
  ELSE Done(Drop(i, Len(t)), Take(i, Len(t)))

\* take!(len) with len a numeral: Incomplete unless len bytes are there
take(i, len) ==
  IF Len(len) > 9 THEN Incomplete
  ELSE Let(nat_of(len), LAMBDA n :
         IF n > Len(i) THEN Incomplete ELSE Done(Drop(i, n), Take(i, n)))

\* take_till!/take_till_s!: up to the first byte of class S, all of the
\* input if there is none
take_till(i, S) == Let(position(i, S), LAMBDA n : split_before(i, n))

\* take_till1!: as take_till, one byte at least
take_till1(i, S) ==
  IF Len(i) = 0 THEN Incomplete
  ELSE IF i[1] \in S THEN Error
  ELSE Let(position(i, S), LAMBDA n : split_before(i, n))

\* take_while1!/take_while1_s!: the longest non-empty run of bytes of class S
take_while1(i, S) == take_till1(i, Byte \ S)

is_digit(c) == c >= 48 /\ c <= 57

\* nom::digit: a non-empty run of ASCII digits; Done at the end of input
digit(i) ==
  IF Len(i) = 0 THEN Incomplete
  ELSE IF ~is_digit(i[1]) THEN Error
  ELSE Let(position(i, {c \in Byte : ~is_digit(c)}), LAMBDA n :
         split_before(i, n))

----------------------------------------------------------------------------
(* byte classes, parser.rs 6-37 *)

crlf(c) == c = 13 \/ c = 10

list_wildcards(c) == c = 37 \/ c = 42

quoted_specials(c) == c = 34 \/ c = 92

resp_specials(c) == c = 93

atom_specials(c) ==
  \/ c = 40 \/ c = 41 \/ c = 123 \/ c = 32 \/ c < 32
  \/ list_wildcards(c) \/ quoted_specials(c) \/ resp_specials(c)

atom_char(c) == ~atom_specials(c)

astring_char(c) == atom_char(c) \/ resp_specials(c)

tag_char(c) == c # 43 /\ astring_char(c)

\* the byte classes as sets, for the rules that scan with them
crlf_bytes == {c \in Byte : crlf(c)}

atom_specials_bytes == {c \in Byte : atom_specials(c)}

atom_char_bytes == {c \in Byte : atom_char(c)}

tag_char_bytes == {c \in Byte : tag_char(c)}

----------------------------------------------------------------------------
(* lexical layer, parser.rs 41-130 *)

RECURSIVE quoted_len(_, _, _)
\* the loop of quoted_data from byte k on: the value of len at its end
quoted_len(i, k, escape) ==
  IF k > Len(i) THEN k - 1
  ELSE IF i[k] = 34 /\ ~escape THEN k - 1
  ELSE quoted_len(i, k + 1, i[k] = 92 /\ ~escape)

quoted_data(i) ==
  Let(quoted_len(i, 1, FALSE), LAMBDA len :
    map_utf8(Done(Drop(i, len), Take(i, len))))

quoted(i) ==
  Then(tag_s(i, <<34>>), LAMBDA r1 :
  Then(quoted_data(r1.rest), LAMBDA data :
  Then(tag_s(data.rest, <<34>>), LAMBDA r3 :
  Done(r3.rest, data.out))))

\* map!(nom::digit, |s| str::parse(str::from_utf8(s).unwrap()).unwrap())
number_upto(i, max) ==
  Then(digit(i), LAMBDA r :
  Let(parse_uint(r.out, max), LAMBDA n :
    IF n = None THEN Panic ELSE Done(r.rest, n[1])))

number(i) == number_upto(i, u32_MAX)

number_64(i) == number_upto(i, u64_MAX)

literal(i) ==
  Then(tag_s(i, <<123>>), LAMBDA r1 :
  Then(number(r1.rest), LAMBDA len :
  Then(tag_s(len.rest, <<125>>), LAMBDA r3 :
  Then(tag_s(r3.rest, <<13, 10>>), LAMBDA r4 :
  map_utf8(take(r4.rest, len.out))))))

string(i) == alt(quoted(i), literal(i))

\* map!(tag_no_case!(t), |s| Status::s)
status_as(i, t, s) == Then(tag_no_case(i, t), LAMBDA r : Done(r.rest, s))

status_ok(i) == status_as(i, <<79, 75>>, "Ok")

status_no(i) == status_as(i, <<78, 79>>, "No")

status_bad(i) == status_as(i, <<66, 65, 68>>, "Bad")

status_preauth(i) == status_as(i, <<80, 82, 69, 65, 85, 84, 72>>, "PreAuth")

status_bye(i) == status_as(i, <<66, 89, 69>>, "Bye")

status(i) ==
  alt(status_ok(i), alt(status_no(i), alt(status_bad(i),
    alt(status_preauth(i), status_bye(i)))))

\* a variant of text that runs to the last CR of the input instead of the
\* first CR or LF
text_to_last_cr(i) ==
  IF \E k \in 1..Len(i) : i[k] = 13
  THEN Let(CHOOSE k \in 1..Len(i) : i[k] = 13 /\ \A j \in (k + 1)..Len(i) : i[j] # 13,
           LAMBDA n : map_utf8(split_before(i, n)))
  ELSE map_utf8(Done(<<>>, i))

text(i) == map_utf8(take_till(i, crlf_bytes))

atom(i) == map_utf8(take_while1(i, atom_char_bytes))

\* the value of `last` after the loop of flag_extension over t = i[1..]:
\* the index (from 0) of the first byte that is no atom_char, else of the
\* last byte looked at, 0 if t is empty
flag_extension_last(t) ==
  Let(position(t, atom_specials_bytes), LAMBDA n :
    IF n # 0 THEN n - 1 ELSE IF Len(t) = 0 THEN 0 ELSE Len(t) - 1)

flag_extension(i) ==
  IF Len(i) < 1 \/ i[1] # 92 THEN Error
  ELSE Let(flag_extension_last(Tail(i)), LAMBDA last :
         map_utf8(Done(Drop(i, last + 1), Take(i, last + 1))))

flag(i) == alt(flag_extension(i), atom(i))

\* do_parse!(tag_s!(" ") >> flag: flag >> (flag))
sp_flag(i) == Then(tag_s(i, <<32>>), LAMBDA r1 : flag(r1.rest))

RECURSIVE many0_sp_flag(_, _)
\* many0!(sp_flag) from `input` on, with the flags `acc` pushed so far
many0_sp_flag(input, acc) ==
  IF Len(input) = 0 THEN Done(input, acc)
  ELSE Let(sp_flag(input), LAMBDA r :
    IF r.kind = "Error" THEN Done(input, acc)
    ELSE IF r.kind # "Done" THEN r
    ELSE IF r.rest = input THEN Error
    ELSE many0_sp_flag(r.rest, Append(acc, r.out)))

\* do_parse!(flag0: flag >> flags: many0!(...) >> (vec![flag0] ++ flags))
flags_seq(i) ==
  Then(flag(i), LAMBDA flag0 : many0_sp_flag(flag0.rest, <<flag0.out>>))

\* `if elements.is_some() { elements.unwrap() } else { Vec::new() }`
unwrap_or_empty(elements) == IF elements # None THEN elements[1] ELSE <<>>

flag_list(i) ==
  Then(tag_s(i, <<40>>), LAMBDA r1 :
  Then(opt(r1.rest, flags_seq(r1.rest)), LAMBDA elements :
  Then(tag_s(elements.rest, <<41>>), LAMBDA r3 :
  Done(r3.rest, unwrap_or_empty(elements.out)))))

----------------------------------------------------------------------------
(* response codes, parser.rs 155-231 *)

flag_perm(i) == alt(tag_s(i, <<92, 42>>), flag(i))

sp_flag_perm(i) == Then(tag_s(i, <<32>>), LAMBDA r1 : flag_perm(r1.rest))

RECURSIVE many0_sp_flag_perm(_, _)
many0_sp_flag_perm(input, acc) ==
  IF Len(input) = 0 THEN Done(input, acc)
  ELSE Let(sp_flag_perm(input), LAMBDA r :
    IF r.kind = "Error" THEN Done(input, acc)
    ELSE IF r.kind # "Done" THEN r
    ELSE IF r.rest = input THEN Error
    ELSE many0_sp_flag_perm(r.rest, Append(acc, r.out)))

flags_perm_seq(i) ==
  Then(flag_perm(i), LAMBDA flag0 :
    many0_sp_flag_perm(flag0.rest, <<flag0.out>>))

resp_text_code_permanent_flags(i) ==
  Then(tag_s(i, <<80, 69, 82, 77, 65, 78, 69, 78, 84, 70, 76, 65, 71, 83, 32, 40>>), LAMBDA r1 :
  Then(opt(r1.rest, flags_perm_seq(r1.rest)), LAMBDA elements :
  Then(tag_s(elements.rest, <<41>>), LAMBDA r3 :
  Done(r3.rest, [code |-> "PermanentFlags",
                 arg |-> unwrap_or_empty(elements.out)]))))

\* do_parse!(tag_s!(kw) >> (ResponseCode::name))
code_bare(i, kw, name) ==
  Then(tag_s(i, kw), LAMBDA r1 : Done(r1.rest, [code |-> name]))

resp_text_code_highest_mod_seq(i) ==
  Then(tag_s(i, <<72, 73, 71, 72, 69, 83, 84, 77, 79, 68, 83, 69, 81, 32>>), LAMBDA r1 :
  Then(number_64(r1.rest), LAMBDA num :
  Done(num.rest, [code |-> "HighestModSeq", arg |-> num.out])))

resp_text_code_read_only(i) == code_bare(i, <<82, 69, 65, 68, 45, 79, 78, 76, 89>>, "ReadOnly")

resp_text_code_read_write(i) == code_bare(i, <<82, 69, 65, 68, 45, 87, 82, 73, 84, 69>>, "ReadWrite")

resp_text_code_try_create(i) == code_bare(i, <<84, 82, 89, 67, 82, 69, 65, 84, 69>>, "TryCreate")

resp_text_code_uid_validity(i) ==
  Then(tag_s(i, <<85, 73, 68, 86, 65, 76, 73, 68, 73, 84, 89, 32>>), LAMBDA r1 :
  Then(number(r1.rest), LAMBDA num :
  Done(num.rest, [code |-> "UidValidity", arg |-> num.out])))

resp_text_code_uid_next(i) ==
  Then(tag_s(i, <<85, 73, 68, 78, 69, 88, 84, 32>>), LAMBDA r1 :
  Then(number(r1.rest), LAMBDA num :
  Done(num.rest, [code |-> "UidNext", arg |-> num.out])))

resp_text_code(i) ==
  Then(tag_s(i, <<91>>), LAMBDA r1 :
  Then(alt(resp_text_code_permanent_flags(r1.rest),
       alt(resp_text_code_uid_validity(r1.rest),
       alt(resp_text_code_uid_next(r1.rest),
       alt(resp_text_code_read_only(r1.rest),
       alt(resp_text_code_read_write(r1.rest),
       alt(resp_text_code_try_create(r1.rest),
           resp_text_code_highest_mod_seq(r1.rest))))))), LAMBDA coded :
  Then(tag_s(coded.rest, <<93>>), LAMBDA r3 :
  Done(r3.rest, coded.out))))

----------------------------------------------------------------------------
(* capability and mailbox data, parser.rs 233-267 *)

capability(i) ==
  Then(tag_s(i, <<32>>), LAMBDA r1 :
    map_utf8(take_till1(r1.rest, atom_specials_bytes)))

RECURSIVE many1_capability_loop(_, _)
many1_capability_loop(input, acc) ==
  IF Len(input) = 0 THEN Done(input, acc)
  ELSE Let(capability(input), LAMBDA r :
    IF r.kind = "Error" THEN Done(input, acc)
    ELSE IF r.kind # "Done" THEN r
    ELSE IF Len(r.rest) = Len(input) THEN Done(input, acc)
    ELSE many1_capability_loop(r.rest, Append(acc, r.out)))

\* many1!(capability)
many1_capability(i) ==
  Then(capability(i), LAMBDA r : many1_capability_loop(r.rest, <<r.out>>))

capability_data(i) ==
  Then(tag_s(i, <<67, 65, 80, 65, 66, 73, 76, 73, 84, 89>>), LAMBDA r1 :
  Then(many1_capability(r1.rest), LAMBDA capabilities :
  Done(capabilities.rest, [type |-> "Capabilities", caps |-> capabilities.out])))

mailbox_data_flags(i) ==
  Then(tag_s(i, <<70, 76, 65, 71, 83, 32>>), LAMBDA r1 :
  Then(flag_list(r1.rest), LAMBDA flags :
  Done(flags.rest, [type |-> "MailboxData",
                    datum |-> [type |-> "Flags", flags |-> flags.out]])))

mailbox_data_exists(i) ==
  Then(number(i), LAMBDA num :
  Then(tag_s(num.rest, <<32, 69, 88, 73, 83, 84, 83>>), LAMBDA r2 :
  Done(r2.rest, [type |-> "MailboxData",
                 datum |-> [type |-> "Exists", n |-> num.out]])))

mailbox_data_recent(i) ==
  Then(number(i), LAMBDA num :
  Then(tag_s(num.rest, <<32, 82, 69, 67, 69, 78, 84>>), LAMBDA r2 :
  Done(r2.rest, [type |-> "MailboxData",
                 datum |-> [type |-> "Recent", n |-> num.out]])))

mailbox_data(i) ==
  alt(mailbox_data_flags(i), alt(mailbox_data_exists(i), mailbox_data_recent(i)))

----------------------------------------------------------------------------
(* nstring, address, envelope, parser.rs 269-326 *)

nstring(i) ==
  Then(alt(tag_s(i, <<78, 73, 76>>), string(i)), LAMBDA s :
    Done(s.rest, IF s.out = <<78, 73, 76>> THEN None ELSE Some(s.out)))

\* do_parse!(... v: rule >> tag_s!(sep) >> ...): the rule's result r0, then sep
then_tag(r0, sep) ==
  Then(r0, LAMBDA r :
  Then(tag_s(r.rest, sep), LAMBDA s : Done(s.rest, r.out)))

address(i) ==
  Then(tag_s(i, <<40>>), LAMBDA r1 :
  Then(then_tag(nstring(r1.rest), <<32>>), LAMBDA name :
  Then(then_tag(nstring(name.rest), <<32>>), LAMBDA adl :
  Then(then_tag(nstring(adl.rest), <<32>>), LAMBDA mailbox :
  Then(then_tag(nstring(mailbox.rest), <<41>>), LAMBDA host :
  Done(host.rest, [name |-> name.out, adl |-> adl.out,
                   mailbox |-> mailbox.out, host |-> host.out]))))))

RECURSIVE many1_address_loop(_, _)
many1_address_loop(input, acc) ==
  IF Len(input) = 0 THEN Done(input, acc)
  ELSE Let(address(input), LAMBDA r :
    IF r.kind = "Error" THEN Done(input, acc)
    ELSE IF r.kind # "Done" THEN r
    ELSE IF Len(r.rest) = Len(input) THEN Done(input, acc)
    ELSE many1_address_loop(r.rest, Append(acc, r.out)))

\* a variant of many1!(address) that accepts zero addresses: many0!(address)
many0_address(i) == many1_address_loop(i, <<>>)

\* many1!(address)
many1_address(i) ==
  Then(address(i), LAMBDA r : many1_address_loop(r.rest, <<r.out>>))

opt_addresses(i) ==
  alt(Then(tag_s(i, <<78, 73, 76>>), LAMBDA s : Done(s.rest, None)),
      Then(tag_s(i, <<40>>), LAMBDA r1 :
      Then(many1_address(r1.rest), LAMBDA addrs :
      Then(tag_s(addrs.rest, <<41>>), LAMBDA r3 :
      Done(r3.rest, Some(addrs.out))))))

msg_att_envelope(i) ==
  Then(tag_s(i, <<69, 78, 86, 69, 76, 79, 80, 69, 32, 40>>), LAMBDA r0 :
  Then(then_tag(nstring(r0.rest), <<32>>), LAMBDA date :
  Then(then_tag(nstring(date.rest), <<32>>), LAMBDA subject :
  Then(then_tag(opt_addresses(subject.rest), <<32>>), LAMBDA from :
  Then(then_tag(opt_addresses(from.rest), <<32>>), LAMBDA sender :
  Then(then_tag(opt_addresses(sender.rest), <<32>>), LAMBDA reply_to :
  Then(then_tag(opt_addresses(reply_to.rest), <<32>>), LAMBDA to :
  Then(then_tag(opt_addresses(to.rest), <<32>>), LAMBDA cc :
  Then(then_tag(opt_addresses(cc.rest), <<32>>), LAMBDA bcc :
  Then(then_tag(nstring(bcc.rest), <<32>>), LAMBDA in_reply_to :
  Then(then_tag(nstring(in_reply_to.rest), <<41>>), LAMBDA message_id :
  Done(message_id.rest,
       [att |-> "Envelope",
        val |-> [date |-> date.out, subject |-> subject.out,
                 from |-> from.out, sender |-> sender.out,
                 reply_to |-> reply_to.out, to |-> to.out,
                 cc |-> cc.out, bcc |-> bcc.out,
                 in_reply_to |-> in_reply_to.out,
                 message_id |-> message_id.out]]))))))))))))

----------------------------------------------------------------------------
(* message attributes, parser.rs 328-404 *)

msg_att_internal_date(i) ==
  Then(tag_s(i, <<73, 78, 84, 69, 82, 78, 65, 76, 68, 65, 84, 69, 32>>), LAMBDA r1 :
  Then(nstring(r1.rest), LAMBDA date :
    IF date.out = None THEN Panic               \* date.unwrap()
    ELSE Done(date.rest, [att |-> "InternalDate", val |-> date.out[1]])))

msg_att_flags(i) ==
  Then(tag_s(i, <<70, 76, 65, 71, 83, 32>>), LAMBDA r1 :
  Then(flag_list(r1.rest), LAMBDA flags :
  Done(flags.rest, [att |-> "Flags", val |-> flags.out])))

msg_att_rfc822(i) ==
  Then(tag_s(i, <<82, 70, 67, 56, 50, 50, 32>>), LAMBDA r1 :
  Then(nstring(r1.rest), LAMBDA raw :
  Done(raw.rest, [att |-> "Rfc822", val |-> raw.out])))

msg_att_rfc822_size(i) ==
  Then(tag_s(i, <<82, 70, 67, 56, 50, 50, 46, 83, 73, 90, 69, 32>>), LAMBDA r1 :
  Then(number(r1.rest), LAMBDA num :
  Done(num.rest, [att |-> "Rfc822Size", val |-> num.out])))

msg_att_mod_seq(i) ==
  Then(tag_s(i, <<77, 79, 68, 83, 69, 81, 32, 40>>), LAMBDA r1 :
  Then(number_64(r1.rest), LAMBDA num :
  Then(tag_s(num.rest, <<41>>), LAMBDA r3 :
  Done(r3.rest, [att |-> "ModSeq", val |-> num.out]))))

msg_att_uid(i) ==
  Then(tag_s(i, <<85, 73, 68, 32>>), LAMBDA r1 :
  Then(number(r1.rest), LAMBDA num :
  Done(num.rest, [att |-> "Uid", val |-> num.out])))

msg_att(i) ==
  alt(msg_att_envelope(i),
  alt(msg_att_internal_date(i),
  alt(msg_att_flags(i),
  alt(msg_att_mod_seq(i),
  alt(msg_att_rfc822(i),
  alt(msg_att_rfc822_size(i),
      msg_att_uid(i)))))))

sp_msg_att(i) == Then(tag_s(i, <<32>>), LAMBDA r1 : msg_att(r1.rest))

RECURSIVE many0_sp_msg_att(_, _)
many0_sp_msg_att(input, acc) ==
  IF Len(input) = 0 THEN Done(input, acc)
  ELSE Let(sp_msg_att(input), LAMBDA r :
    IF r.kind = "Error" THEN Done(input, acc)
    ELSE IF r.kind # "Done" THEN r
    ELSE IF r.rest = input THEN Error
    ELSE many0_sp_msg_att(r.rest, Append(acc, r.out)))

msg_att_list(i) ==
  Then(tag_s(i, <<40>>), LAMBDA r1 :
  Then(msg_att(r1.rest), LAMBDA attr0 :
  Then(many0_sp_msg_att(attr0.rest, <<attr0.out>>), LAMBDA elements :
  Then(tag_s(elements.rest, <<41>>), LAMBDA r4 :
  Done(r4.rest, elements.out)))))

message_data_fetch(i) ==
  Then(number(i), LAMBDA num :
  Then(tag_s(num.rest, <<32, 70, 69, 84, 67, 72, 32>>), LAMBDA r2 :
  Then(msg_att_list(r2.rest), LAMBDA attrs :
  Done(attrs.rest, [type |-> "Fetch", n |-> num.out, attrs |-> attrs.out]))))

message_data_expunge(i) ==
  Then(number(i), LAMBDA num :
  Then(tag_s(num.rest, <<32, 69, 88, 80, 85, 78, 71, 69>>), LAMBDA r2 :
  Done(r2.rest, [type |-> "Expunge", n |-> num.out])))

----------------------------------------------------------------------------
(* response assembler, parser.rs 406-469 *)

tag(i) == map_utf8(take_while1(i, tag_char_bytes))

\* the closing expression of resp_text
resp_text_value(code, t) ==
  IF Len(t) < 1 THEN Some(None)
  ELSE IF code # None THEN
    IF char_boundary_1(t) THEN Some(Some(Tail(t))) ELSE None   \* &text[1..]
  ELSE Some(Some(t))

resp_text(i) ==
  Then(opt(i, resp_text_code(i)), LAMBDA code :
  Then(text(code.rest), LAMBDA t :
  Let(resp_text_value(code.out, t.out), LAMBDA v :
    IF v = None THEN Panic ELSE Done(t.rest, <<code.out, v[1]>>))))

response_tagged(i) ==
  Then(tag(i), LAMBDA t :
  Then(tag_s(t.rest, <<32>>), LAMBDA r2 :
  Then(status(r2.rest), LAMBDA st :
  Then(tag_s(st.rest, <<32>>), LAMBDA r4 :
  Then(resp_text(r4.rest), LAMBDA txt :
  Then(tag_s(txt.rest, <<13, 10>>), LAMBDA r6 :
  Done(r6.rest, [type |-> "Done", tag |-> t.out, status |-> st.out,
                 code |-> txt.out[1], text |-> txt.out[2]])))))))

resp_cond(i) ==
  Then(status(i), LAMBDA st :
  Then(tag_s(st.rest, <<32>>), LAMBDA r2 :
  Then(resp_text(r2.rest), LAMBDA txt :
  Done(txt.rest, [type |-> "Data", status |-> st.out,
                  code |-> txt.out[1], text |-> txt.out[2]]))))

\* a variant of response_data that does not read the closing CRLF
response_data_without_crlf(i) ==
  Then(tag_s(i, <<42, 32>>), LAMBDA r1 :
    alt(resp_cond(r1.rest),
    alt(mailbox_data(r1.rest),
    alt(message_data_expunge(r1.rest),
    alt(message_data_fetch(r1.rest),
        capability_data(r1.rest))))))

response_data(i) ==
  Then(tag_s(i, <<42, 32>>), LAMBDA r1 :
  Then(alt(resp_cond(r1.rest),
       alt(mailbox_data(r1.rest),
       alt(message_data_expunge(r1.rest),
       alt(message_data_fetch(r1.rest),
           capability_data(r1.rest))))), LAMBDA contents :
  Then(tag_s(contents.rest, <<13, 10>>), LAMBDA r3 :
  Done(r3.rest, contents.out))))

response(i) == alt(response_data(i), response_tagged(i))

parse_response(m) == response(m)

----------------------------------------------------------------------------
(* The bytes a server sends: the inputs of the decoder.  The number of a   *)
(* FETCH and the tag of a completion are fixed where a family varies       *)
(* something else.                                                         *)

MaxChunk == 2

MaxStream == 2

MaxTrail == 1

MaxLit == 2

MaxEsc == 2

RECURSIVE Flatten(_)
Flatten(ss) == IF ss = <<>> THEN <<>> ELSE Head(ss) \o Flatten(Tail(ss))

SeqsUpTo(S, n) == UNION {[1..k -> S] : k \in 0..n}

SeqsFromTo(S, m, n) == UNION {[1..k -> S] : k \in m..n}

CRLF == <<13, 10>>

SP == <<32>>

NIL == <<78, 73, 76>>

DQ == <<34>>

\* "* 1 FETCH (" att ")" CRLF
FetchOne(att) == <<42, 32, 49, 32, 70, 69, 84, 67, 72, 32, 40>> \o att \o <<41, 13, 10>>

Fetched(att) == [type |-> "Fetch", n |-> <<1>>, attrs |-> <<att>>]

\* "RFC822 " before an nstring token
Rfc822Wire(tok) == FetchOne(<<82, 70, 67, 56, 50, 50, 32>> \o tok)

\* "{" L "}" CRLF content, for a content of at most 9 bytes
LitToken(c) == <<123, 48 + Len(c), 125, 13, 10>> \o c

QuotedToken(raw) == DQ \o raw \o DQ

\* literal contents: CR, LF, a letter and a byte that is not UTF-8
LitBytes == {13, 10, 97, 255}

LitContents == SeqsUpTo(LitBytes, MaxLit) \cup { <<104, 101, 108, 13, 10>> }

LitWires == { Rfc822Wire(LitToken(c)) : c \in LitContents }

\* quoted contents: plain bytes and escape pairs \" \\ \a
EscItems == { <<97>>, <<92, 34>>, <<92, 92>>, <<92, 97>> }

EscBodies ==
  { Flatten(s) : s \in SeqsUpTo(EscItems, MaxEsc) } \cup { <<97, 92, 34, 98>>, <<97, 92, 92, 98>> }

QuotedWires == { Rfc822Wire(QuotedToken(raw)) : raw \in EscBodies }

\* tagged completion lines TAG SP STATUS SP text CRLF
Tags == { <<65, 49>>, <<97>>, <<93, 120, 46, 57>> }

StatusWords ==
  { <<<<79, 75>>, "Ok">>, <<<<111, 107>>, "Ok">>, <<<<78, 111>>, "No">>, <<<<98, 65, 100>>, "Bad">>,
    <<<<80, 82, 69, 65, 85, 84, 72>>, "PreAuth">>, <<<<66, 121, 101>>, "Bye">> }

\* texts without CR/LF that do not begin with a bracketed response code;
\* the last three are a two-byte character, a byte that is not UTF-8 and
\* an unclosed bracket
Texts ==
  { <<104, 105>>, <<32, 120>>, <<91, 120, 93, 32, 121>>, <<91, 82, 69, 65, 68, 45, 79, 78, 76, 89>>, <<195, 169>>, <<255>>,
    <<91, 85, 73, 68, 78, 69, 88, 84, 32, 52, 50, 57, 52, 57, 54, 55, 50, 57, 54>> }

TagLine(t, s, x) == t \o SP \o s \o SP \o x \o CRLF

TagLines == { TagLine(t, s[1], x) : t \in Tags, s \in StatusWords, x \in Texts }

\* completion lines with a response code: "A1 OK [" code "]" tail CRLF
Codes ==
  { <<<<82, 69, 65, 68, 45, 87, 82, 73, 84, 69>>, [code |-> "ReadWrite"]>>,
    <<<<82, 69, 65, 68, 45, 79, 78, 76, 89>>, [code |-> "ReadOnly"]>>,
    <<<<84, 82, 89, 67, 82, 69, 65, 84, 69>>, [code |-> "TryCreate"]>>,
    <<<<85, 73, 68, 78, 69, 88, 84, 32, 55>>, [code |-> "UidNext", arg |-> <<7>>]>> }

CodeLine(c, tail) == <<65, 49, 32, 79, 75, 32, 91>> \o c \o <<93>> \o tail \o CRLF

CodeTexts == { <<104, 105>>, <<32>>, <<97, 32, 98>> }

CodeLines ==
  { CodeLine(c[1], tail) : c \in Codes,
      tail \in {<<>>, SP} \cup { SP \o x : x \in CodeTexts } }
  \cup { <<65, 49, 32, 79, 75, 32, 13, 10>> }

\* envelopes: date, subject, six address lists, in-reply-to, message-id
Envelope(date, subject, lists, irt, mid) ==
  FetchOne(<<69, 78, 86, 69, 76, 79, 80, 69, 32, 40>> \o date \o SP \o subject \o SP \o lists[1] \o SP
           \o lists[2] \o SP \o lists[3] \o SP \o lists[4] \o SP \o lists[5]
           \o SP \o lists[6] \o SP \o irt \o SP \o mid \o <<41>>)

AddrFields == 1..6

\* the envelope whose k-th address list is tok, every other field NIL
EnvWire(k, tok) ==
  Envelope(NIL, NIL, [j \in AddrFields |-> IF j = k THEN tok ELSE NIL], NIL, NIL)

AddrA == <<40, 78, 73, 76, 32, 78, 73, 76, 32, 34, 97, 34, 32, 34, 98, 34, 41>>

AddrB == <<40, 34, 110, 34, 32, 78, 73, 76, 32, 34, 99, 34, 32, 34, 100, 34, 41>>

AddrAValue ==
  [name |-> None, adl |-> None, mailbox |-> Some(<<97>>), host |-> Some(<<98>>)]

AddrBValue ==
  [name |-> Some(<<110>>), adl |-> None, mailbox |-> Some(<<99>>), host |-> Some(<<100>>)]

\* address-list tokens with the lists they stand for
AddrGroups ==
  { <<<<40>> \o AddrA \o <<41>>, <<AddrAValue>>>>,
    <<<<40>> \o AddrA \o AddrB \o <<41>>, <<AddrAValue, AddrBValue>>>> }

EmptyGroup == <<40, 41>>

EnvWires ==
  { EnvWire(k, tok) : k \in AddrFields,
      tok \in {NIL, EmptyGroup} \cup { g[1] : g \in AddrGroups } }

\* nstring tokens: NIL and String tokens with their contents
StringTokens ==
  { <<QuotedToken(NIL), NIL>>, <<LitToken(NIL), NIL>>,
    <<QuotedToken(<<97>>), <<97>>>>, <<QuotedToken(<<>>), <<>>>>,
    <<QuotedToken(<<110, 105, 108>>), <<110, 105, 108>>>> }

NTokens == {NIL} \cup { t[1] : t \in StringTokens }

\* the nstring positions: 1 RFC822, 2 envelope subject, 3 the host of an address
NPositions == 1..3

NWire(p, tok) ==
  IF p = 1 THEN Rfc822Wire(tok)
  ELSE IF p = 2 THEN
    Envelope(NIL, tok, [j \in AddrFields |-> NIL], NIL, NIL)
  ELSE EnvWire(1, <<40, 40, 78, 73, 76, 32, 78, 73, 76, 32, 78, 73, 76, 32>> \o tok \o <<41, 41>>)

NWires == { NWire(p, tok) : p \in NPositions, tok \in NTokens }

\* well-formed responses of every kind
Samples ==
  { <<42, 32, 53, 32, 69, 88, 73, 83, 84, 83, 13, 10>>,
    <<42, 32, 51, 32, 82, 69, 67, 69, 78, 84, 13, 10>>,
    <<42, 32, 49, 50, 32, 69, 88, 80, 85, 78, 71, 69, 13, 10>>,
    <<42, 32, 70, 76, 65, 71, 83, 32, 40, 92, 83, 101, 101, 110, 32, 92, 68, 101, 108, 101, 116, 101, 100, 41, 13, 10>>,
    <<42, 32, 70, 76, 65, 71, 83, 32, 40, 41, 13, 10>>,
    <<42, 32, 67, 65, 80, 65, 66, 73, 76, 73, 84, 89, 32, 73, 77, 65, 80, 52, 114, 101, 118, 49, 32, 83, 84, 65, 82, 84, 84, 76, 83, 13, 10>>,
    <<42, 32, 79, 75, 32, 91, 80, 69, 82, 77, 65, 78, 69, 78, 84, 70, 76, 65, 71, 83, 32, 40, 92, 83, 101, 101, 110, 32, 92, 42, 41, 93, 32, 111, 107, 13, 10>>,
    <<42, 32, 66, 89, 69, 32, 98, 121, 101, 13, 10>>,
    <<65, 50, 32, 78, 79, 32, 91, 84, 82, 89, 67, 82, 69, 65, 84, 69, 93, 32, 120, 13, 10>>,
    <<42, 32, 49, 32, 70, 69, 84, 67, 72, 32, 40, 85, 73, 68, 32, 55, 32, 70, 76, 65, 71, 83, 32, 40, 92, 83, 101, 101, 110, 41, 32, 82, 70, 67, 56, 50, 50, 46, 83, 73, 90, 69, 32, 49, 48, 32, 77, 79, 68, 83, 69, 81, 32, 40, 57, 41, 41, 13, 10>>,
    <<97, 32, 79, 75, 32, 91, 72, 73, 71, 72, 69, 83, 84, 77, 79, 68, 83, 69, 81, 32, 49, 56, 52, 52, 54, 55, 52, 52, 48, 55, 51, 55, 48, 57, 53, 53, 49, 54, 49, 53, 93, 13, 10>>,
    <<42, 32, 79, 75, 32, 91, 85, 73, 68, 86, 65, 76, 73, 68, 73, 84, 89, 32, 52, 50, 57, 52, 57, 54, 55, 50, 57, 53, 93, 32, 118, 13, 10>>,
    <<42, 32, 49, 32, 70, 69, 84, 67, 72, 32, 40, 73, 78, 84, 69, 82, 78, 65, 76, 68, 65, 84, 69, 32, 34, 100, 34, 41, 13, 10>>,
    <<42, 32, 49, 32, 70, 69, 84, 67, 72, 32, 40, 82, 70, 67, 56, 50, 50, 32, 34, 113, 13, 10, 34, 41, 13, 10>>,
    <<42, 32, 50, 32, 70, 69, 84, 67, 72, 32, 40, 82, 70, 67, 56, 50, 50, 32, 123, 50, 125, 13, 10, 13, 10, 41, 13, 10>> }

\* responses that break an assumption of the decoder, and malformed ones
Hostile ==
  { <<42, 32, 49, 32, 70, 69, 84, 67, 72, 32, 40, 73, 78, 84, 69, 82, 78, 65, 76, 68, 65, 84, 69, 32, 78, 73, 76, 41, 13, 10>>,
    <<42, 32, 49, 32, 70, 69, 84, 67, 72, 32, 40, 85, 73, 68, 32, 52, 50, 57, 52, 57, 54, 55, 50, 57, 54, 41, 13, 10>>,
    <<42, 32, 49, 32, 70, 69, 84, 67, 72, 32, 40, 77, 79, 68, 83, 69, 81, 32, 40, 49, 56, 52, 52, 54, 55, 52, 52, 48, 55, 51, 55, 48, 57, 53, 53, 49, 54, 49, 54, 41, 41, 13, 10>>,
    <<97, 32, 79, 75, 32, 91, 82, 69, 65, 68, 45, 79, 78, 76, 89, 93, 195, 169, 13, 10>>,
    <<42, 32, 49, 32, 70, 69, 84, 67, 72, 32, 40, 82, 70, 67, 56, 50, 50, 32, 34, 255, 34, 41, 13, 10>>,
    <<43, 32, 79, 75, 32, 120, 13, 10>>,
    <<42, 32, 53, 32, 69, 88, 73, 84, 83, 13, 10>> }

Units ==
  Samples \cup Hostile \cup LitWires \cup QuotedWires \cup TagLines
    \cup CodeLines \cup EnvWires \cup NWires

\* responses sent back to back
StreamUnits ==
  { <<42, 32, 53, 32, 69, 88, 73, 83, 84, 83, 13, 10>>,
    <<65, 50, 32, 78, 79, 32, 91, 84, 82, 89, 67, 82, 69, 65, 84, 69, 93, 32, 120, 13, 10>>,
    <<42, 32, 70, 76, 65, 71, 83, 32, 40, 92, 83, 101, 101, 110, 41, 13, 10>>,
    <<42, 32, 49, 32, 70, 69, 84, 67, 72, 32, 40, 82, 70, 67, 56, 50, 50, 32, 34, 113, 13, 10, 34, 41, 13, 10>>,
    <<42, 32, 50, 32, 70, 69, 84, 67, 72, 32, 40, 82, 70, 67, 56, 50, 50, 32, 123, 50, 125, 13, 10, 13, 10, 41, 13, 10>> }

Streams == { <<u>> : u \in Units } \cup SeqsFromTo(StreamUnits, 2, MaxStream)

\* bytes that may follow a response in the buffer
TrailBytes == {34, 92, 13, 10, 97, 32, 41, 42}

Trailers == SeqsFromTo(TrailBytes, 1, MaxTrail)

----------------------------------------------------------------------------
(* The caller of parse_response: a connection that reads the server's bytes *)
(* in chunks and decodes from the start of its buffer after every read.     *)

Wire == Flatten(sent)

Init ==
  /\ sent \in Streams
  /\ pos = 0
  /\ buf = <<>>
  /\ msg = <<>>
  /\ res = [kind |-> "None"]
  /\ out = <<>>

\* one call parse_response(m) and what the caller does with its result
Decode(m) ==
  \E r \in {parse_response(m)} :
  /\ msg' = m
  /\ res' = r
  /\ buf' = IF r.kind = "Done" THEN r.rest ELSE m
  /\ out' = IF r.kind = "Done" THEN Append(out, r.out) ELSE out

\* n more bytes arrive and the buffer is decoded from its start
Receive(n) ==
  /\ n >= 1
  /\ res.kind \in {"None", "Incomplete"} \/ (res.kind = "Done" /\ buf = <<>>)
  /\ pos + n <= Len(Wire)
  /\ pos' = pos + n
  /\ Decode(buf \o SubSeq(Wire, pos + 1, pos + n))
  /\ UNCHANGED sent

\* a response was decoded and bytes are left: decode the remainder
Drain ==
  /\ res.kind = "Done"
  /\ buf # <<>>
  /\ Decode(buf)
  /\ UNCHANGED <<sent, pos>>

\* the sizes of a read: at most MaxChunk bytes, or all the bytes outstanding
ReadSizes == 1..MaxChunk \cup {Len(Wire) - pos}

Next == (\E n \in ReadSizes : Receive(n)) \/ Drain

Spec == Init /\ [][Next]_vars



----------------------------------------------------------------------------
(* Properties of parse_response, stated on the connection: msg is the       *)
(* buffer of the last call, res its result, out the values decoded so far.  *)

IsProperPrefix(p, u) == Len(p) < Len(u) /\ p = Take(u, Len(p))

\* u is one complete response: it decodes and nothing of it is left
Complete(u) ==
  \E r \in {parse_response(u)} : r.kind = "Done" /\ r.rest = <<>>

\* the bytes the last call consumed, if it was Done
Consumed == Take(msg, Len(msg) - Len(res.rest))

EndsWithCRLF(s) == Len(s) >= 2 /\ s[Len(s) - 1] = 13 /\ s[Len(s)] = 10

\* C1: of a response sent whole that decodes alone, every proper prefix the
\* connection has decoded gave Incomplete, and the whole of it gave Done
C1_PrefixIsIncomplete ==
  (res.kind # "None" /\ out = <<>> /\ Complete(sent[1]))
    => /\ IsProperPrefix(msg, sent[1]) => res.kind = "Incomplete"
       /\ msg = sent[1] => res.kind = "Done"

\* a prefix that ends inside a backslash flag gave Error
C1_Reached ==
  /\ Complete(sent[1])
  /\ IsProperPrefix(msg, sent[1])
  /\ msg = <<42, 32, 70, 76, 65, 71, 83, 32, 40, 92, 83>>
  /\ res = Error

\* C2: a call that is Done consumed a non-empty part of the buffer that ends
\* with CR LF and is exactly the next response sent, and left the bytes
\* after it
C2_ConsumesOneUnit ==
  res.kind = "Done"
    => /\ msg = Consumed \o res.rest
       /\ Consumed # <<>>
       /\ EndsWithCRLF(Consumed)
       /\ Consumed = sent[Len(out)]

C2_Reached ==
  /\ res.kind = "Done"
  /\ res.rest # <<>>
  /\ res.out.type = "Fetch"
  /\ Len(out) = 1

\* C3: every call returns Done, Incomplete or Error: no call aborts
C3_ThreeOutcomes == res.kind \in {"None", "Done", "Incomplete", "Error"}

\* a call on INTERNALDATE NIL aborted
C3_Reached == msg = <<42, 32, 49, 32, 70, 69, 84, 67, 72, 32, 40, 73, 78, 84, 69, 82, 78, 65, 76, 68, 65, 84, 69, 32, 78, 73, 76, 41, 13, 10>> /\ res = Panic

\* "* 1 FETCH (RFC822 {L}" CRLF, the bytes up to the content of a literal
LitHeader(c) == <<42, 32, 49, 32, 70, 69, 84, 67, 72, 32, 40, 82, 70, 67, 56, 50, 50, 32>> \o <<123, 48 + Len(c), 125, 13, 10>>

\* C4: a literal {L} CRLF decodes to the L bytes after the header whatever
\* their values, and to Incomplete while fewer than L bytes follow the header
C4_LiteralTakesLBytes ==
  \A c \in LitContents :
    /\ msg = Rfc822Wire(LitToken(c))
         => res = Done(<<>>, Fetched([att |-> "Rfc822", val |-> Some(c)]))
    /\ (\E k \in 0..(Len(c) - 1) : msg = LitHeader(c) \o Take(c, k))
         => res.kind = "Incomplete"

\* a call on a literal of one byte that is not UTF-8 aborted
C4_Reached == msg = Rfc822Wire(LitToken(<<255>>)) /\ res = Panic

\* C5: TAG SP STATUS SP text CRLF decodes to Done(TAG, STATUS, None,
\* Some(text)) with nothing left, for every tag, every status keyword in any
\* letter case and every non-empty text without CR, LF or response code
C5_TaggedCompletion ==
  \A t \in Tags, s \in StatusWords, x \in Texts :
    msg = TagLine(t, s[1], x)
      => res = Done(<<>>, [type |-> "Done", tag |-> t, status |-> s[2],
                           code |-> None, text |-> Some(x)])

\* a call on a completion line whose text is not UTF-8 aborted
C5_Reached == msg = TagLine(<<65, 49>>, <<79, 75>>, <<255>>) /\ res = Panic

CodeDone(c, txt) ==
  Done(<<>>, [type |-> "Done", tag |-> <<65, 49>>, status |-> "Ok",
              code |-> c, text |-> txt])

\* C6: the text is None when nothing follows the optional response code and
\* when one space follows the code's "]"; after a code, a space and a
\* non-empty text, the text is the bytes after that space
C6_NoTextAfterCode ==
  /\ msg = <<65, 49, 32, 79, 75, 32, 13, 10>> => res = CodeDone(None, None)
  /\ \A c \in Codes :
       /\ msg = CodeLine(c[1], <<>>) => res = CodeDone(Some(c[2]), None)
       /\ msg = CodeLine(c[1], SP) => res = CodeDone(Some(c[2]), None)
       /\ \A x \in CodeTexts :
            msg = CodeLine(c[1], SP \o x) => res = CodeDone(Some(c[2]), Some(x))

\* one space after the code gave the empty text, not None
C6_Reached ==
  /\ msg = CodeLine(<<82, 69, 65, 68, 45, 87, 82, 73, 84, 69>>, SP)
  /\ res = CodeDone(Some([code |-> "ReadWrite"]), Some(<<>>))

RECURSIVE Unescape(_)
\* the content of a quoted string without its escape characters
Unescape(raw) ==
  IF raw = <<>> THEN <<>>
  ELSE IF raw[1] = 92 /\ Len(raw) >= 2
    THEN <<raw[2]>> \o Unescape(Drop(raw, 2))
    ELSE <<raw[1]>> \o Unescape(Tail(raw))

\* C7: a quoted string decodes to its content with every escape character
\* stripped and the escaped byte kept
C7_QuotedStripsEscapes ==
  \A raw \in EscBodies :
    msg = Rfc822Wire(QuotedToken(raw))
      => res = Done(<<>>, Fetched([att |-> "Rfc822", val |-> Some(Unescape(raw))]))

\* the quoted string "a\"b" gave the four bytes a \ " b
C7_Reached ==
  /\ msg = Rfc822Wire(QuotedToken(<<97, 92, 34, 98>>))
  /\ res = Done(<<>>, Fetched([att |-> "Rfc822", val |-> Some(<<97, 92, 34, 98>>)]))

EnvelopeValue(subject, from) ==
  [att |-> "Envelope",
   val |-> [date |-> None, subject |-> subject, from |-> from,
            sender |-> None, reply_to |-> None, to |-> None, cc |-> None,
            bcc |-> None, in_reply_to |-> None, message_id |-> None]]

\* the value of NWire(p, tok) when tok stands for the nstring v
NValue(p, v) ==
  IF p = 1 THEN Fetched([att |-> "Rfc822", val |-> v])
  ELSE IF p = 2 THEN Fetched(EnvelopeValue(v, None))
  ELSE Fetched(EnvelopeValue(None,
         Some(<<[name |-> None, adl |-> None, mailbox |-> None, host |-> v]>>)))

\* C8: in every nstring position the bare token NIL is None and every
\* String token is Some(content), the quoted string "NIL" and the literal
\* {3} CRLF NIL included
C8_OnlyBareNilIsNone ==
  \A p \in NPositions :
    /\ msg = NWire(p, NIL) => res = Done(<<>>, NValue(p, None))
    /\ \A t \in StringTokens :
         msg = NWire(p, t[1]) => res = Done(<<>>, NValue(p, Some(t[2])))

\* the quoted string "NIL" gave None
C8_Reached ==
  /\ msg = NWire(1, QuotedToken(NIL))
  /\ res = Done(<<>>, NValue(1, None))

\* the envelope value whose k-th address list is v, every other field None
ListValue(k, v) ==
  [att |-> "Envelope",
   val |-> [date |-> None, subject |-> None,
            from |-> IF k = 1 THEN v ELSE None,
            sender |-> IF k = 2 THEN v ELSE None,
            reply_to |-> IF k = 3 THEN v ELSE None,
            to |-> IF k = 4 THEN v ELSE None,
            cc |-> IF k = 5 THEN v ELSE None,
            bcc |-> IF k = 6 THEN v ELSE None,
            in_reply_to |-> None, message_id |-> None]]

\* C9 as stated: in each of the six address-list fields NIL is an absent
\* list and "()" a present list of zero addresses
C9_EmptyGroupIsEmptyList ==
  \A k \in AddrFields :
    /\ msg = EnvWire(k, NIL) => res = Done(<<>>, Fetched(ListValue(k, None)))
    /\ msg = EnvWire(k, EmptyGroup)
         => res = Done(<<>>, Fetched(ListValue(k, Some(<<>>))))

\* C9: in each of the six address-list fields NIL is an absent list, a group
\* of one or more addresses is the list of them in wire order, and the empty
\* group "()" is a syntax error
C9_EmptyGroupIsError ==
  \A k \in AddrFields :
    /\ msg = EnvWire(k, NIL) => res = Done(<<>>, Fetched(ListValue(k, None)))
    /\ \A g \in AddrGroups :
         msg = EnvWire(k, g[1])
           => res = Done(<<>>, Fetched(ListValue(k, Some(g[2]))))
    /\ msg = EnvWire(k, EmptyGroup) => res = Error

C9_Reached ==
  \E k \in AddrFields : msg = EnvWire(k, EmptyGroup) /\ res = Error

\* C10: a response decoded with nothing left decodes to the same value with
\* any bytes after it, which are left; and the values decoded from responses
\* sent back to back are the values of each response decoded alone, in order
C10_TrailingBytesIgnored ==
  /\ (res.kind = "Done" /\ res.rest = <<>>)
       => \A s \in Trailers : parse_response(msg \o s) = Done(s, res.out)
  /\ res.kind = "Done"
       => /\ out[Len(out)] = res.out
          /\ parse_response(sent[Len(out)]) = Done(<<>>, res.out)

C10_Reached ==
  /\ res.kind = "Done"
  /\ res.rest = <<>>
  /\ Len(out) = 2
  /\ out[1] # out[2]

====
